---- MODULE Spec2Model ----
(***************************************************************************)
(* Large-set-arboricity engine of aperelman/sublinear.                     *)
(*                                                                         *)
(* The model covers the networkx evaluators                                *)
(*   LargeSetArboricity            (large_set_arboricity_updated.py)       *)
(*   LargeSetArboricityOptimized   (large_set_arboricity_snap.py)          *)
(* the igraph evaluator LargeSetArboricityIgraph (large_set_arboricity.py) *)
(* and the helper compute_alpha_k_for_all_k (plot_alpha_k.py).             *)
(*                                                                         *)
(* A graph is a vertex count n (vertices 0..n-1), a set E of two-element   *)
(* vertex sets and the iteration order `nodes` of G.nodes().  Every loop   *)
(* of an evaluator is one action per iteration; the loop body is an        *)
(* operator on a record of the loop's local variables, so that callers     *)
(* which run a whole evaluator inside one of their own steps iterate the   *)
(* very same body.                                                         *)
(***************************************************************************)
EXTENDS Integers, Sequences, FiniteSets, Bags, TLC

\* ---------------------------------------------------------------- bounds
MaxN == 4          \* largest vertex count of the small graphs
MaxLiveN == 3      \* largest vertex count of the graphs of the fair runs
MaxMidN == 5       \* largest vertex count of the mid-size graphs
MaxPadN == 6       \* largest vertex count of the padded graphs
PadCore == 3       \* edges of a padded graph lie among vertices 0..PadCore-1
MaxBigN == 16      \* largest vertex count of the graphs above the ceiling
BigCore == 3       \* edges of a large graph lie among vertices 0..BigCore-1
MaxNeg == 2        \* arguments k range over -MaxNeg .. n + MaxPast
MaxPast == 1

\* ------------------------------------------------------ program constants
ExactCeiling == 15 \* compute_alpha_k_exact: "if n > 15"
Inf == 999         \* float('inf'), above every degree of the model
NoVertex == 0 - 1  \* None as a vertex

VARIABLES
  n,                  \* self.n
  E,                  \* edges of self.G
  nodes,              \* iteration order of self.G.nodes()
  pc,                 \* "idle", a loop label, or "done"
  op,                 \* the evaluator that was called
  k,                  \* its argument k
  arg,                \* use_optimized (verify_approximation), max_k (all-k)
  scan,               \* locals of the naive scan loop
  rm,                 \* locals of the loop of compute_alpha_k_removal
  hp,                 \* locals of the heap loop of ..._optimized
  ig,                 \* locals of the igraph compute_dk loop
  all_dk,             \* locals of the loop of compute_all_dk_optimized
  all_alpha,          \* locals of the loop of compute_all_alpha_k_optimized
  acc,                \* k_values, dk_values, alpha_k_values of the all-k helper
  report,             \* the dictionary verify_approximation returns
  ret                 \* the value returned to the caller

vars ==
  <<n, E, nodes, pc, op, k, arg, scan, rm, hp, ig, all_dk, all_alpha, acc,
    report, ret>>
graph == <<n, E, nodes>>

\* ---------------------------------------------------------------- graphs
Nodes == 0 .. (n - 1)
Pairs(c) == {{u, v} : u, v \in 0 .. (c - 1)} \ {{v} : v \in 0 .. (c - 1)}
Min2(a, b) == IF a < b THEN a ELSE b
Max2(a, b) == IF a > b THEN a ELSE b

\* G.neighbors(v)
Adj(v) == {u \in Nodes : {u, v} \in E}
\* H.degree(v) for the induced subgraph on the node set H
DegreeIn(H, v) == Cardinality(Adj(v) \cap H)
\* subgraph.number_of_edges()
EdgesIn(S) == Cardinality({e \in E : e \subseteq S})

\* the two insertion orders of the model: ascending and descending ids
Identity(m) == [i \in 1 .. m |-> i - 1]
Reverse(m) == [i \in 1 .. m |-> m - i]

\* the quotient rounded down, math.floor(a / b), where the code rounds up
CeilAsFloor(a, b) == a \div b

\* math.ceil(a / b) for integers a >= 0, b > 0
Ceil(a, b) == (a + b - 1) \div b

\* Python's seq[s:] for an integer s
SliceFrom(seq, s) ==
  LET len == Len(seq)
      start == IF s < 0 THEN Max2(len + s, 0) ELSE Min2(s, len)
  IN  SubSeq(seq, start + 1, len)

RECURSIVE MaxOver(_, _)
\* max(f[v] for v in seq), seq non-empty
MaxOver(f, seq) ==
  IF Len(seq) = 1 THEN f[seq[1]]
  ELSE Max2(f[seq[1]], MaxOver(f, Tail(seq)))

\* "if k > n: k = n"
ClampK(kk) == IF kk > n THEN n ELSE kk

\* the guard written "if k < 0": k = 0 falls through to the loop
EarlyReturnStrict(kk) == ClampK(kk) < 0

\* the guard "if k <= 0: return 0, []" of modified_degeneracy_algorithm
EarlyReturn(kk) == ClampK(kk) <= 0

\* last_k and dk_value at the end of modified_degeneracy_algorithm
DkOfRun(order, dar, kk) ==
  LET kc == ClampK(kk)
      last_k == IF kc <= Len(order) THEN SliceFrom(order, 0 - kc) ELSE order
  IN  IF last_k # <<>> THEN MaxOver(dar, last_k) ELSE 0

\* --------------------------------------------------- naive scan (networkx)
RECURSIVE ScanMin(_, _, _, _)
\* "for v in H.nodes(): deg = H.degree(v); if deg < min_deg: ..."
ScanMin(H, i, min_deg, min_vertex) ==
  IF i > Len(nodes) THEN [deg |-> min_deg, v |-> min_vertex]
  ELSE LET v == nodes[i] IN
       IF v \in H /\ DegreeIn(H, v) < min_deg
       THEN ScanMin(H, i + 1, DegreeIn(H, v), v)
       ELSE ScanMin(H, i + 1, min_deg, min_vertex)

ScanStart == [H |-> Nodes, removal_order |-> <<>>, degree_at_removal |-> <<>>,
              step |-> 0]

\* the loop written "for step in range(n - 1)": the last vertex stays
ScanMoreShort(s) == s.step < n - 1 /\ s.H # {}

\* the loop test "for step in range(n)" with its "break"
ScanMore(s) == s.step < n /\ s.H # {}

\* one iteration of the removal loop of modified_degeneracy_algorithm
ScanBody(s) ==
  LET m == ScanMin(s.H, 1, Inf, NoVertex) IN
  [H |-> s.H \ {m.v},
   removal_order |-> Append(s.removal_order, m.v),
   degree_at_removal |-> (m.v :> m.deg) @@ s.degree_at_removal,
   step |-> s.step + 1]

RECURSIVE ScanRun(_)
ScanRun(s) == IF ScanMore(s) THEN ScanRun(ScanBody(s)) ELSE s

\* LargeSetArboricity.modified_degeneracy_algorithm(k) as one call
ModifiedDegeneracy(kk) ==
  IF EarlyReturn(kk) THEN [kind |-> "value", val |-> 0, order |-> <<>>]
  ELSE LET s == ScanRun(ScanStart) IN
       [kind |-> "value",
        val |-> DkOfRun(s.removal_order, s.degree_at_removal, kk),
        order |-> s.removal_order]

NoRet == [kind |-> "pending", val |-> 0, order |-> <<>>]
NoScan == [H |-> {}, removal_order |-> <<>>, degree_at_removal |-> <<>>,
           step |-> 0]

\* ------------------------------------------- heap variant (networkx, heapq)
\* heapq orders the (degree, vertex) tuples lexicographically
TupleLeq(e, f) == e[1] < f[1] \/ (e[1] = f[1] /\ e[2] <= f[2])

\* a heap that hands out its largest entry
HeapMax(heap) ==
  CHOOSE e \in BagToSet(heap) : \A f \in BagToSet(heap) : TupleLeq(f, e)

\* the entry heapq.heappop(heap) returns; the heap is a bag of tuples
HeapMin(heap) ==
  CHOOSE e \in BagToSet(heap) : \A f \in BagToSet(heap) : TupleLeq(e, f)
HeapPop(heap) == heap (-) SetToBag({HeapMin(heap)})
HeapPush(heap, e) == heap (+) SetToBag({e})

RECURSIVE HeapPushAll(_, _)
\* the loop over the neighbours without its heappush: no updated entry
HeapPushNone(heap, es) == heap

\* "for u in neighbors: ... heapq.heappush(heap, (degrees[u], u))"
HeapPushAll(heap, es) ==
  IF es = {} THEN heap
  ELSE LET e == CHOOSE x \in es : TRUE
       IN  HeapPushAll(HeapPush(heap, e), es \ {e})

\* neighbors, degrees, heap, removed, ... before the "while heap" loop
HeapStart ==
  [neighbors |-> [v \in Nodes |-> Adj(v)],
   degrees |-> [v \in Nodes |-> Cardinality(Adj(v))],
   heap |-> SetToBag({<<Cardinality(Adj(v)), v>> : v \in Nodes}),
   removed |-> {},
   removal_order |-> <<>>,
   degree_at_removal |-> <<>>]

\* "while heap:"
HeapMore(s) == s.heap # EmptyBag

\* the loop body without "degrees[u] -= 1": the degree table goes stale
HeapBodyStaleDegrees(s) ==
  LET e == HeapMin(s.heap)
      rest == HeapPop(s.heap)
      deg == e[1]
      v == e[2]
  IN
  IF v \in s.removed THEN [s EXCEPT !.heap = rest]
  ELSE IF deg < s.degrees[v]
  THEN [s EXCEPT !.heap = HeapPush(rest, <<s.degrees[v], v>>)]
  ELSE
    LET live == {u \in s.neighbors[v] : u \notin s.removed \cup {v}}
    IN [neighbors |-> [u \in DOMAIN s.neighbors |->
                         IF u = v THEN {}
                         ELSE IF u \in live THEN s.neighbors[u] \ {v}
                         ELSE s.neighbors[u]],
        degrees |-> s.degrees,
        heap |-> HeapPushAll(rest, {<<s.degrees[u], u>> : u \in live}),
        removed |-> s.removed \cup {v},
        removal_order |-> Append(s.removal_order, v),
        degree_at_removal |-> (v :> s.degrees[v]) @@ s.degree_at_removal]

\* one iteration of the loop of modified_degeneracy_algorithm_optimized
HeapBody(s) ==
  LET e == HeapMin(s.heap)
      rest == HeapPop(s.heap)
      deg == e[1]
      v == e[2]
  IN
  IF v \in s.removed THEN [s EXCEPT !.heap = rest]
  ELSE IF deg < s.degrees[v]
  THEN [s EXCEPT !.heap = HeapPush(rest, <<s.degrees[v], v>>)]
  ELSE
    LET live == {u \in s.neighbors[v] : u \notin s.removed \cup {v}}
        degs == [u \in DOMAIN s.degrees |->
                   IF u \in live THEN s.degrees[u] - 1 ELSE s.degrees[u]]
    IN [neighbors |-> [u \in DOMAIN s.neighbors |->
                         IF u = v THEN {}
                         ELSE IF u \in live THEN s.neighbors[u] \ {v}
                         ELSE s.neighbors[u]],
        degrees |-> degs,
        heap |-> HeapPushAll(rest, {<<degs[u], u>> : u \in live}),
        removed |-> s.removed \cup {v},
        removal_order |-> Append(s.removal_order, v),
        degree_at_removal |-> (v :> s.degrees[v]) @@ s.degree_at_removal]

RECURSIVE HeapRun(_)
HeapRun(s) == IF HeapMore(s) THEN HeapRun(HeapBody(s)) ELSE s

\* LargeSetArboricityOptimized.modified_degeneracy_algorithm_optimized(k)
ModifiedDegeneracyOptimized(kk) ==
  IF EarlyReturn(kk) THEN [kind |-> "value", val |-> 0, order |-> <<>>]
  ELSE LET s == HeapRun(HeapStart) IN
       [kind |-> "value",
        val |-> DkOfRun(s.removal_order, s.degree_at_removal, kk),
        order |-> s.removal_order]

NoHeap == [neighbors |-> <<>>, degrees |-> <<>>, heap |-> EmptyBag,
           removed |-> {}, removal_order |-> <<>>, degree_at_removal |-> <<>>]

\* ------------------------------------------------ igraph single-k evaluator
\* a float that is a ratio of two small integers is kept as <<num, den>>
FracGt(a, b) == a[1] * b[2] > b[1] * a[2]
FracMax(a, b) == IF FracGt(b, a) THEN b ELSE a

\* "if k >= n: return 0"
DkEarly(kk) == kk >= n
\* "if k < 0: k = 0"
DkClamp(kk) == IF kk < 0 THEN 0 ELSE kk

\* the start with edges_remaining set to the degree sum, twice self.m
DkStartDegreeSum(kk) ==
  [k |-> DkClamp(kk),
   degrees |-> [v \in Nodes |-> Cardinality(Adj(v))],
   heap |-> SetToBag({<<Cardinality(Adj(v)), v>> : v \in Nodes}),
   removed |-> {},
   vertices_remaining |-> n,
   max_avg_degree |-> <<0, 1>>,
   edges_remaining |-> 2 * Cardinality(E)]

\* the locals of compute_dk before its "while" loop
DkStart(kk) ==
  [k |-> DkClamp(kk),
   degrees |-> [v \in Nodes |-> Cardinality(Adj(v))],
   heap |-> SetToBag({<<Cardinality(Adj(v)), v>> : v \in Nodes}),
   removed |-> {},
   vertices_remaining |-> n,
   max_avg_degree |-> <<0, 1>>,
   edges_remaining |-> Cardinality(E)]

\* the loop test written "while heap:": the elimination runs to the end
DkMoreDrain(s) == s.heap # EmptyBag

\* "while heap and vertices_remaining > k:"
DkMore(s) == s.heap # EmptyBag /\ s.vertices_remaining > s.k

\* the loop body without "edges_remaining -= deg"
DkBodyStaleEdges(s) ==
  LET e == HeapMin(s.heap)
      rest == HeapPop(s.heap)
      v == e[2]
  IN
  IF v \in s.removed THEN [s EXCEPT !.heap = rest]
  ELSE
    LET mx == IF s.vertices_remaining > s.k
              THEN FracMax(s.max_avg_degree,
                           <<2 * s.edges_remaining, s.vertices_remaining>>)
              ELSE s.max_avg_degree
        gone == s.removed \cup {v}
        live == {u \in Adj(v) : u \notin gone}
        degs == [u \in DOMAIN s.degrees |->
                   IF u \in live THEN s.degrees[u] - 1 ELSE s.degrees[u]]
    IN [k |-> s.k,
        degrees |-> degs,
        heap |-> HeapPushAll(rest, {<<degs[u], u>> : u \in live}),
        removed |-> gone,
        vertices_remaining |-> s.vertices_remaining - 1,
        max_avg_degree |-> mx,
        edges_remaining |-> s.edges_remaining]

\* one iteration of the loop of LargeSetArboricityIgraph.compute_dk
DkBody(s) ==
  LET e == HeapMin(s.heap)
      rest == HeapPop(s.heap)
      deg == e[1]
      v == e[2]
  IN
  IF v \in s.removed THEN [s EXCEPT !.heap = rest]
  ELSE
    LET mx == IF s.vertices_remaining > s.k
              THEN FracMax(s.max_avg_degree,
                           <<2 * s.edges_remaining, s.vertices_remaining>>)
              ELSE s.max_avg_degree
        gone == s.removed \cup {v}
        live == {u \in Adj(v) : u \notin gone}
        degs == [u \in DOMAIN s.degrees |->
                   IF u \in live THEN s.degrees[u] - 1 ELSE s.degrees[u]]
    IN [k |-> s.k,
        degrees |-> degs,
        heap |-> HeapPushAll(rest, {<<degs[u], u>> : u \in live}),
        removed |-> gone,
        vertices_remaining |-> s.vertices_remaining - 1,
        max_avg_degree |-> mx,
        edges_remaining |-> s.edges_remaining - deg]

RECURSIVE DkRun(_)
DkRun(s) == IF DkMore(s) THEN DkRun(DkBody(s)) ELSE s

\* "dk_value = int(np.ceil(max_avg_degree))"
DkValue(s) == Ceil(s.max_avg_degree[1], s.max_avg_degree[2])

\* LargeSetArboricityIgraph.compute_dk(k)
ComputeDk(kk) ==
  IF DkEarly(kk) THEN [kind |-> "value", val |-> 0, order |-> <<>>]
  ELSE [kind |-> "value", val |-> DkValue(DkRun(DkStart(kk))), order |-> <<>>]

NoIg == [k |-> 0, degrees |-> <<>>, heap |-> EmptyBag, removed |-> {},
         vertices_remaining |-> 0, max_avg_degree |-> <<0, 1>>,
         edges_remaining |-> 0]

\* ------------------------------------------------- igraph all-k evaluator
\* np.zeros(m): a list of m zeros, index i of the array at position i + 1
Zeros(m) == [i \in 1 .. m |-> 0]

\* the locals of compute_all_dk_optimized before its "while" loop
AllDkStart ==
  [degrees |-> [v \in Nodes |-> Cardinality(Adj(v))],
   heap |-> SetToBag({<<Cardinality(Adj(v)), v>> : v \in Nodes}),
   removed |-> {},
   vertices_at_step |-> [Zeros(n) EXCEPT ![1] = n],
   edges_at_step |-> [Zeros(n) EXCEPT ![1] = Cardinality(E)],
   vertices_remaining |-> n,
   edges_remaining |-> Cardinality(E),
   step |-> 0,
   dk_values |-> <<>>]

\* "while heap and step < n - 1:"
AllDkMore(s) == s.heap # EmptyBag /\ s.step < n - 1

\* one iteration of the loop of compute_all_dk_optimized
AllDkBody(s) ==
  LET e == HeapMin(s.heap)
      rest == HeapPop(s.heap)
      deg == e[1]
      v == e[2]
  IN
  IF v \in s.removed THEN [s EXCEPT !.heap = rest]
  ELSE
    LET gone == s.removed \cup {v}
        live == {u \in Adj(v) : u \notin gone}
        degs == [u \in DOMAIN s.degrees |->
                   IF u \in live THEN s.degrees[u] - 1 ELSE s.degrees[u]]
    IN [degrees |-> degs,
        heap |-> HeapPushAll(rest, {<<degs[u], u>> : u \in live}),
        removed |-> gone,
        vertices_at_step |->
          [s.vertices_at_step EXCEPT ![s.step + 2] = s.vertices_remaining - 1],
        edges_at_step |->
          [s.edges_at_step EXCEPT ![s.step + 2] = s.edges_remaining - deg],
        vertices_remaining |-> s.vertices_remaining - 1,
        edges_remaining |-> s.edges_remaining - deg,
        step |-> s.step + 1,
        dk_values |-> s.dk_values]

\* the step test written "vertices >= k": a state of exactly k vertices counts
StateFoldInclusive(mx, vertices, edges, kk) ==
  IF vertices >= kk /\ vertices > 0 /\ FracGt(<<2 * edges, vertices>>, mx)
  THEN <<2 * edges, vertices>> ELSE mx

\* the body of the inner loop of _compute_dk_from_states
StateFold(mx, vertices, edges, kk) ==
  IF vertices > kk /\ vertices > 0 /\ FracGt(<<2 * edges, vertices>>, mx)
  THEN <<2 * edges, vertices>> ELSE mx

RECURSIVE StatesMax(_, _, _, _, _)
\* "for step in range(num_steps):" of _compute_dk_from_states
StatesMax(vs, es, kk, step, mx) ==
  IF step > Len(vs) THEN mx
  ELSE StatesMax(vs, es, kk, step + 1, StateFold(mx, vs[step], es[step], kk))

\* _compute_dk_from_states: dk_values[k] at position k + 1
ComputeDkFromStates(vs, es, nn) ==
  [i \in 1 .. nn |->
     LET mx == StatesMax(vs, es, i - 1, 1, <<0, 1>>) IN Ceil(mx[1], mx[2])]

\* the call of _compute_dk_from_states on the recorded prefix
AllDkValues(s) ==
  ComputeDkFromStates(SubSeq(s.vertices_at_step, 1, s.step + 1),
                      SubSeq(s.edges_at_step, 1, s.step + 1), n)

NoAllDk ==
  [degrees |-> <<>>, heap |-> EmptyBag, removed |-> {},
   vertices_at_step |-> <<>>, edges_at_step |-> <<>>,
   vertices_remaining |-> 0, edges_remaining |-> 0, step |-> 0,
   dk_values |-> <<>>]

\* ------------------------------------------------------------ exact oracle
\* itertools.combinations(nodes, size), as sets
Combinations(S, size) == {T \in SUBSET S : Cardinality(T) = size}

SetMax(S) == CHOOSE x \in S : \A y \in S : y <= x

\* the alpha_val of the subsets of one size that pass the edge test,
\* folded into the running max_alpha
ExactSize(size, max_alpha) ==
  LET vals == {Ceil(2 * EdgesIn(T), Cardinality(T)) :
                 T \in {U \in Combinations(Nodes, size) :
                          Cardinality(U) > 0 /\ EdgesIn(U) > 0}}
  IN  IF vals = {} THEN max_alpha ELSE Max2(max_alpha, SetMax(vals))

RECURSIVE ExactSizes(_, _, _)
\* "for size in range(first, stop):" over the subset sizes
ExactSizes(size, stop, max_alpha) ==
  IF size >= stop THEN max_alpha
  ELSE ExactSizes(size + 1, stop, ExactSize(size, max_alpha))

\* the oracle answering 0 above the ceiling instead of (None, None)
ComputeAlphaKExactSilent(kk) ==
  IF n <= kk THEN [kind |-> "value", val |-> 0, order |-> <<>>]
  ELSE IF n > ExactCeiling THEN [kind |-> "value", val |-> 0, order |-> <<>>]
  ELSE IF kk + 1 < 0 THEN [kind |-> "ValueError", val |-> 0, order |-> <<>>]
  ELSE [kind |-> "value", val |-> ExactSizes(kk + 1, n + 1, 0), order |-> <<>>]

\* the oracle with "range(k + 1, n)": the whole vertex set is never tried
ComputeAlphaKExactShort(kk) ==
  IF n <= kk THEN [kind |-> "value", val |-> 0, order |-> <<>>]
  ELSE IF n > ExactCeiling THEN [kind |-> "None", val |-> 0, order |-> <<>>]
  ELSE IF kk + 1 < 0 THEN [kind |-> "ValueError", val |-> 0, order |-> <<>>]
  ELSE [kind |-> "value", val |-> ExactSizes(kk + 1, n, 0), order |-> <<>>]

\* compute_alpha_k_exact(k): kind "None" is the (None, None) return,
\* kind "ValueError" the exception of combinations(nodes, r) for r < 0;
\* the sizes are those of "range(k + 1, n + 1)"
ComputeAlphaKExact(kk) ==
  IF n <= kk THEN [kind |-> "value", val |-> 0, order |-> <<>>]
  ELSE IF n > ExactCeiling THEN [kind |-> "None", val |-> 0, order |-> <<>>]
  ELSE IF kk + 1 < 0 THEN [kind |-> "ValueError", val |-> 0, order |-> <<>>]
  ELSE [kind |-> "value", val |-> ExactSizes(kk + 1, n + 1, 0), order |-> <<>>]

\* --------------------------------------------- removal evaluator (networkx)
\* "avg_deg = 2 * H.number_of_edges() / H.number_of_nodes(); math.ceil(...)"
AlphaVal(H) == Ceil(2 * EdgesIn(H), Cardinality(H))

RmStart == [H |-> Nodes, max_alpha |-> 0, step |-> 0]

\* "for step in range(num_removals)" with its "break"
RmMore(s, kk) == s.step < n - kk /\ s.H # {}

\* one iteration of the loop of compute_alpha_k_removal
RmBody(s, kk) ==
  LET seen == IF Cardinality(s.H) > kk /\ EdgesIn(s.H) > 0
                 /\ AlphaVal(s.H) > s.max_alpha
              THEN AlphaVal(s.H) ELSE s.max_alpha
      m == ScanMin(s.H, 1, Inf, NoVertex)
  IN  [H |-> s.H \ {m.v}, max_alpha |-> seen, step |-> s.step + 1]

RECURSIVE RmRun(_, _)
RmRun(s, kk) == IF RmMore(s, kk) THEN RmRun(RmBody(s, kk), kk) ELSE s

\* "Check final subgraph (k vertices remaining)"
RmValue(s) ==
  IF Cardinality(s.H) > 0 /\ EdgesIn(s.H) > 0 /\ AlphaVal(s.H) > s.max_alpha
  THEN AlphaVal(s.H) ELSE s.max_alpha

\* the two early returns of compute_alpha_k_removal
RmEarly(kk) == kk >= n \/ kk <= 0
RmEarlyValue(kk) ==
  IF kk >= n
  THEN (IF Cardinality(E) = 0 THEN 0 ELSE Ceil(2 * Cardinality(E), n))
  ELSE 0

\* LargeSetArboricity.compute_alpha_k_removal(k)
ComputeAlphaKRemoval(kk) ==
  IF RmEarly(kk)
  THEN [kind |-> "value", val |-> RmEarlyValue(kk), order |-> <<>>]
  ELSE [kind |-> "value", val |-> RmValue(RmRun(RmStart, kk)), order |-> <<>>]

NoRm == [H |-> {}, max_alpha |-> 0, step |-> 0]

\* --------------------------------------- single-pass alpha_k (networkx)
\* the locals of compute_all_alpha_k_optimized before its loop; alpha_values
\* is the dictionary k -> value, all_match the verdict of the verifier
AllAlphaStart ==
  [H |-> Nodes, alpha_values |-> <<>>, step |-> 0, all_match |-> "unset"]

\* "for step in range(n):" with "if remaining == 0: break"
AllAlphaMore(s) == s.step < n /\ s.H # {}

\* "for k in range(1, remaining): alpha_values[k] = max(..., alpha_val)"
AllAlphaUpdate(alpha_values, remaining, alpha_val) ==
  [kk \in (DOMAIN alpha_values) \cup (1 .. (remaining - 1)) |->
     IF kk \notin 1 .. (remaining - 1) THEN alpha_values[kk]
     ELSE IF kk \notin DOMAIN alpha_values THEN alpha_val
     ELSE Max2(alpha_values[kk], alpha_val)]

\* one iteration of the loop of compute_all_alpha_k_optimized
AllAlphaBody(s) ==
  LET remaining == Cardinality(s.H)
      m == ScanMin(s.H, 1, Inf, NoVertex)
  IN  [H |-> IF m.v # NoVertex THEN s.H \ {m.v} ELSE s.H,
       alpha_values |->
         IF EdgesIn(s.H) > 0
         THEN AllAlphaUpdate(s.alpha_values, remaining, AlphaVal(s.H))
         ELSE s.alpha_values,
       step |-> s.step + 1,
       all_match |-> s.all_match]

RECURSIVE AllAlphaRun(_)
AllAlphaRun(s) == IF AllAlphaMore(s) THEN AllAlphaRun(AllAlphaBody(s)) ELSE s

\* "step = max(1, self.n // 10); list(range(step, self.n, step))[:10]"
KTestValues ==
  LET step == Max2(1, n \div 10)
      all == {step * i : i \in 1 .. n} \cap (step .. (n - 1))
  IN  {kk \in all : Cardinality({j \in all : j < kk}) < 10}

\* "all_alpha_optimized.get(k, None)": TRUE when the result is None
AlphaMissing(alpha_values, kk) == kk \notin DOMAIN alpha_values

\* "match = (alpha_original == alpha_optimized)" for one tested k
AlphaMatch(alpha_values, kk) ==
  /\ ~AlphaMissing(alpha_values, kk)
  /\ ComputeAlphaKRemoval(kk).val = alpha_values[kk]

NoAllAlpha == [H |-> {}, alpha_values |-> <<>>, step |-> 0,
               all_match |-> "unset"]

\* ----------------------------------------------------------- bound verifier
NoReport == [dk |-> 0, alpha_k |-> 0, alpha_is_none |-> FALSE,
             lower_bound_ok |-> "unset", upper_bound_ok |-> "unset",
             ratio |-> [kind |-> "unset", num |-> 0, den |-> 1]]

PyBool(b) == IF b THEN "True" ELSE "False"

\* the dictionary built by LargeSetArboricityOptimized.verify_approximation
\* from dk_value and the alpha_k of compute_alpha_k_exact
VerifyReport(dk_value, alpha) ==
  IF alpha.kind = "None"
  THEN [dk |-> dk_value, alpha_k |-> 0, alpha_is_none |-> TRUE,
        lower_bound_ok |-> "None", upper_bound_ok |-> "None",
        ratio |-> [kind |-> "None", num |-> 0, den |-> 1]]
  ELSE [dk |-> dk_value, alpha_k |-> alpha.val, alpha_is_none |-> FALSE,
        lower_bound_ok |-> PyBool(dk_value <= alpha.val),
        upper_bound_ok |-> PyBool(alpha.val <= 2 * dk_value),
        ratio |-> IF dk_value > 0
                  THEN [kind |-> "float", num |-> alpha.val, den |-> dk_value]
                  ELSE [kind |-> "inf", num |-> 0, den |-> 1]]

\* ------------------------------------------------- all-k helper (plotting)
\* "if max_k is None or max_k > n - 1: max_k = n - 1"
AllKMax(a) == IF a.max_k_none \/ a.max_k > n - 1 THEN n - 1 ELSE a.max_k

NoAcc == [k |-> 0, max_k |-> 0, k_values |-> <<>>, dk_values |-> <<>>,
          alpha_k_values |-> <<>>]
AllKStart(a) == [NoAcc EXCEPT !.k = 1, !.max_k = AllKMax(a)]

\* "for k in range(1, max_k + 1):"
AllKMore(s) == s.k < s.max_k + 1

\* "alpha_k if alpha_k is not None else dk"
AllKEntry(alpha, dk) ==
  IF alpha.kind # "None" THEN [kind |-> "int", val |-> alpha.val]
  ELSE [kind |-> "int", val |-> dk]

\* one iteration of the loop of compute_alpha_k_for_all_k
AllKBody(s) ==
  LET dk == ModifiedDegeneracy(s.k).val
      alpha == ComputeAlphaKExact(s.k)
  IN  [k |-> s.k + 1,
       max_k |-> s.max_k,
       k_values |-> Append(s.k_values, s.k),
       dk_values |-> Append(s.dk_values, dk),
       alpha_k_values |-> Append(s.alpha_k_values, AllKEntry(alpha, dk))]

\* the run working on self.G itself ("H = self.G", "neighbors = self.adj"):
\* removing a vertex from the working graph removes its edges from self.G
StoredEdgesShared(H) == {e \in E : e \subseteq H}

\* the edges of self.G (and of the cache self.adj) after a loop iteration
\* that left the vertices H in the working graph: the working graph is
\* "self.G.copy()" or "set(self.adj[v])", so the removals do not reach them
StoredEdges(H) == E

\* ---------------------------------------------------------- initial states
NoArg == [use_optimized |-> FALSE, max_k_none |-> FALSE, max_k |-> 0]

Idle ==
  /\ pc = "idle" /\ op = "none" /\ k = 0 /\ arg = NoArg
  /\ scan = NoScan /\ rm = NoRm /\ hp = NoHeap /\ ig = NoIg
  /\ all_dk = NoAllDk /\ all_alpha = NoAllAlpha
  /\ acc = NoAcc /\ report = NoReport /\ ret = NoRet

\* every graph on at most MaxN vertices
Init ==
  /\ n \in 0 .. MaxN
  /\ E \in SUBSET Pairs(n)
  /\ nodes \in {Identity(n), Reverse(n)}
  /\ Idle

\* every graph on at most MaxLiveN vertices
InitLive ==
  /\ n \in 0 .. MaxLiveN
  /\ E \in SUBSET Pairs(n)
  /\ nodes \in {Identity(n), Reverse(n)}
  /\ Idle

\* every graph on at most MaxMidN vertices
InitMid ==
  /\ n \in 0 .. MaxMidN
  /\ E \in SUBSET Pairs(n)
  /\ nodes \in {Identity(n), Reverse(n)}
  /\ Idle

\* small graphs padded with isolated vertices
InitPad ==
  /\ n \in 0 .. MaxPadN
  /\ E \in SUBSET Pairs(Min2(n, PadCore))
  /\ nodes \in {Identity(n), Reverse(n)}
  /\ Idle

\* graphs above the ceiling of the exact oracle
InitBig ==
  /\ n \in (ExactCeiling + 1) .. MaxBigN
  /\ E \in SUBSET Pairs(Min2(n, BigCore))
  /\ nodes \in {Identity(n), Reverse(n)}
  /\ Idle

KRange == (0 - MaxNeg) .. (n + MaxPast)

\* ----------------------------------------------------------------- actions
Enter(name, kk, a) ==
  /\ pc = "idle"
  /\ op' = name /\ k' = kk /\ arg' = a
  /\ UNCHANGED graph

Finish(r) == pc' = "done" /\ ret' = r

\* modified_degeneracy_algorithm(k): entry, loop iteration, return
CallScan ==
  \E kk \in KRange :
    /\ Enter("modified_degeneracy_algorithm", kk, NoArg)
    /\ IF EarlyReturn(kk)
       THEN Finish(ModifiedDegeneracy(kk)) /\ scan' = scan
       ELSE pc' = "scan" /\ scan' = ScanStart /\ ret' = ret
    /\ UNCHANGED <<rm, hp, ig, all_dk, all_alpha, acc, report>>

ScanStep ==
  /\ pc = "scan" /\ ScanMore(scan)
  /\ scan' = ScanBody(scan)
  /\ E' = StoredEdges(scan'.H)
  /\ UNCHANGED <<n, nodes, pc, op, k, arg, rm, hp, ig, all_dk, all_alpha,
                 acc, report, ret>>

ScanReturn ==
  /\ pc = "scan" /\ ~ScanMore(scan)
  /\ Finish([kind |-> "value",
             val |-> DkOfRun(scan.removal_order, scan.degree_at_removal, k),
             order |-> scan.removal_order])
  /\ UNCHANGED <<graph, op, k, arg, scan, rm, hp, ig, all_dk, all_alpha, acc,
                 report>>

\* modified_degeneracy_algorithm_optimized(k)
CallHeap ==
  \E kk \in KRange :
    /\ Enter("modified_degeneracy_algorithm_optimized", kk, NoArg)
    /\ IF EarlyReturn(kk)
       THEN Finish(ModifiedDegeneracyOptimized(kk)) /\ hp' = hp
       ELSE pc' = "heap" /\ hp' = HeapStart /\ ret' = ret
    /\ UNCHANGED <<scan, rm, ig, all_dk, all_alpha, acc, report>>

HeapStep ==
  /\ pc = "heap" /\ HeapMore(hp)
  /\ hp' = HeapBody(hp)
  /\ E' = StoredEdges(Nodes \ hp'.removed)
  /\ UNCHANGED <<n, nodes, pc, op, k, arg, scan, rm, ig, all_dk, all_alpha,
                 acc, report, ret>>

HeapReturn ==
  /\ pc = "heap" /\ ~HeapMore(hp)
  /\ Finish([kind |-> "value",
             val |-> DkOfRun(hp.removal_order, hp.degree_at_removal, k),
             order |-> hp.removal_order])
  /\ UNCHANGED <<graph, op, k, arg, scan, rm, hp, ig, all_dk, all_alpha, acc,
                 report>>

\* LargeSetArboricityIgraph.compute_dk(k)
CallDk ==
  \E kk \in KRange :
    /\ Enter("compute_dk", kk, NoArg)
    /\ IF DkEarly(kk)
       THEN Finish(ComputeDk(kk)) /\ ig' = ig
       ELSE pc' = "dk" /\ ig' = DkStart(kk) /\ ret' = ret
    /\ UNCHANGED <<scan, rm, hp, all_dk, all_alpha, acc, report>>

DkStep ==
  /\ pc = "dk" /\ DkMore(ig)
  /\ ig' = DkBody(ig)
  /\ UNCHANGED <<graph, pc, op, k, arg, scan, rm, hp, all_dk, all_alpha,
                 acc, report, ret>>

DkReturn ==
  /\ pc = "dk" /\ ~DkMore(ig)
  /\ Finish([kind |-> "value", val |-> DkValue(ig), order |-> <<>>])
  /\ UNCHANGED <<graph, op, k, arg, scan, rm, hp, ig, all_dk, all_alpha, acc,
                 report>>

\* compute_arboricity_bound(): "int(np.ceil(self.compute_dk(0) / 2))"
CallArboricityBound ==
  /\ Enter("compute_arboricity_bound", 0, NoArg)
  /\ Finish([kind |-> "value", val |-> Ceil(ComputeDk(0).val, 2),
             order |-> <<>>])
  /\ UNCHANGED <<scan, rm, hp, ig, all_dk, all_alpha, acc, report>>

\* compute_all_dk_optimized(): "vertices_at_step[0] = ..." on an array of
\* length 0 raises IndexError
CallAllDk ==
  /\ Enter("compute_all_dk_optimized", 0, NoArg)
  /\ IF n = 0
     THEN Finish([kind |-> "IndexError", val |-> 0, order |-> <<>>])
          /\ all_dk' = all_dk
     ELSE pc' = "all_dk" /\ all_dk' = AllDkStart /\ ret' = ret
  /\ UNCHANGED <<scan, rm, hp, ig, all_alpha, acc, report>>

AllDkStep ==
  /\ pc = "all_dk" /\ AllDkMore(all_dk)
  /\ all_dk' = AllDkBody(all_dk)
  /\ UNCHANGED <<graph, pc, op, k, arg, scan, rm, hp, ig, all_alpha, acc,
                 report, ret>>

AllDkReturn ==
  /\ pc = "all_dk" /\ ~AllDkMore(all_dk)
  /\ all_dk' = [all_dk EXCEPT !.dk_values = AllDkValues(all_dk)]
  /\ Finish([kind |-> "arrays", val |-> 0, order |-> <<>>])
  /\ UNCHANGED <<graph, op, k, arg, scan, rm, hp, ig, all_alpha, acc, report>>

\* compute_alpha_k_removal(k)
CallRemoval ==
  \E kk \in KRange :
    /\ Enter("compute_alpha_k_removal", kk, NoArg)
    /\ IF RmEarly(kk)
       THEN Finish(ComputeAlphaKRemoval(kk)) /\ rm' = rm
       ELSE pc' = "removal" /\ rm' = RmStart /\ ret' = ret
    /\ UNCHANGED <<scan, hp, ig, all_dk, all_alpha, acc, report>>

RemovalStep ==
  /\ pc = "removal" /\ RmMore(rm, k)
  /\ rm' = RmBody(rm, k)
  /\ E' = StoredEdges(rm'.H)
  /\ UNCHANGED <<n, nodes, pc, op, k, arg, scan, hp, ig, all_dk, all_alpha,
                 acc, report, ret>>

RemovalReturn ==
  /\ pc = "removal" /\ ~RmMore(rm, k)
  /\ Finish([kind |-> "value", val |-> RmValue(rm), order |-> <<>>])
  /\ UNCHANGED <<graph, op, k, arg, scan, rm, hp, ig, all_dk, all_alpha, acc,
                 report>>

\* compute_alpha_k_exact(k)
CallExact ==
  \E kk \in KRange :
    /\ Enter("compute_alpha_k_exact", kk, NoArg)
    /\ Finish(ComputeAlphaKExact(kk))
    /\ UNCHANGED <<scan, rm, hp, ig, all_dk, all_alpha, acc, report>>

\* verify_approximation(k, use_optimized)
CallVerify ==
  \E kk \in KRange, uo \in BOOLEAN :
    LET dk == IF uo THEN ModifiedDegeneracyOptimized(kk)
              ELSE ModifiedDegeneracy(kk)
        alpha == ComputeAlphaKExact(kk)
    IN
    /\ Enter("verify_approximation", kk, [NoArg EXCEPT !.use_optimized = uo])
    /\ IF alpha.kind = "ValueError"
       THEN Finish(alpha) /\ report' = report
       ELSE /\ Finish([kind |-> "report", val |-> 0, order |-> <<>>])
            /\ report' = VerifyReport(dk.val, alpha)
    /\ UNCHANGED <<scan, rm, hp, ig, all_dk, all_alpha, acc>>

\* LargeSetArboricity.verify_approximation(k) of large_set_arboricity_updated:
\* dk from the scan, alpha_k from compute_alpha_k_removal
CallVerifyUpdated ==
  \E kk \in KRange :
    /\ Enter("verify_approximation_updated", kk, NoArg)
    /\ Finish([kind |-> "report", val |-> 0, order |-> <<>>])
    /\ report' = VerifyReport(ModifiedDegeneracy(kk).val,
                              ComputeAlphaKRemoval(kk))
    /\ UNCHANGED <<scan, rm, hp, ig, all_dk, all_alpha, acc>>

\* compute_all_alpha_k_optimized()
CallAllAlpha ==
  /\ Enter("compute_all_alpha_k_optimized", 0, NoArg)
  /\ pc' = "all_alpha" /\ all_alpha' = AllAlphaStart
  /\ UNCHANGED <<scan, rm, hp, ig, all_dk, acc, report, ret>>

AllAlphaStep ==
  /\ pc = "all_alpha" /\ AllAlphaMore(all_alpha)
  /\ all_alpha' = AllAlphaBody(all_alpha)
  /\ E' = StoredEdges(all_alpha'.H)
  /\ UNCHANGED <<n, nodes, pc, op, k, arg, scan, rm, hp, ig, all_dk, acc,
                 report, ret>>

AllAlphaReturn ==
  /\ pc = "all_alpha" /\ ~AllAlphaMore(all_alpha)
  /\ Finish([kind |-> "dict", val |-> 0, order |-> <<>>])
  /\ UNCHANGED <<graph, op, k, arg, scan, rm, hp, ig, all_dk, all_alpha, acc,
                 report>>

\* verify_optimized_correctness() with the default k_test_values; printing
\* a missing entry with the format ":3d" raises TypeError
CallVerifyOptimized ==
  LET s == AllAlphaRun(AllAlphaStart) IN
  /\ Enter("verify_optimized_correctness", 0, NoArg)
  /\ IF \E kk \in KTestValues : AlphaMissing(s.alpha_values, kk)
     THEN /\ Finish([kind |-> "TypeError", val |-> 0, order |-> <<>>])
          /\ all_alpha' = all_alpha
     ELSE /\ Finish([kind |-> "dict", val |-> 0, order |-> <<>>])
          /\ all_alpha' =
               [s EXCEPT !.all_match =
                  PyBool(\A kk \in KTestValues :
                           AlphaMatch(s.alpha_values, kk))]
  /\ UNCHANGED <<scan, rm, hp, ig, all_dk, acc, report>>

\* compute_alpha_k_for_all_k(lsa, max_k)
CallAllK ==
  \E none \in BOOLEAN, mk \in KRange :
    LET a == [NoArg EXCEPT !.max_k_none = none,
                           !.max_k = IF none THEN 0 ELSE mk]
    IN
    /\ Enter("compute_alpha_k_for_all_k", 0, a)
    /\ pc' = "all_k" /\ acc' = AllKStart(a)
    /\ UNCHANGED <<scan, rm, hp, ig, all_dk, all_alpha, report, ret>>

AllKStep ==
  /\ pc = "all_k" /\ AllKMore(acc)
  /\ acc' = AllKBody(acc)
  /\ UNCHANGED <<graph, pc, op, k, arg, scan, rm, hp, ig, all_dk, all_alpha,
                 report, ret>>

AllKReturn ==
  /\ pc = "all_k" /\ ~AllKMore(acc)
  /\ Finish([kind |-> "lists", val |-> 0, order |-> <<>>])
  /\ UNCHANGED <<graph, op, k, arg, scan, rm, hp, ig, all_dk, all_alpha, acc,
                 report>>

\* the caller takes the result; the locals of the call are dropped
Return ==
  /\ pc = "done"
  /\ pc' = "idle" /\ op' = "none" /\ k' = 0 /\ arg' = NoArg
  /\ scan' = NoScan /\ rm' = NoRm /\ hp' = NoHeap /\ ig' = NoIg
  /\ all_dk' = NoAllDk /\ all_alpha' = NoAllAlpha
  /\ acc' = NoAcc /\ report' = NoReport /\ ret' = NoRet
  /\ UNCHANGED graph

Next ==
  \/ CallScan \/ ScanStep \/ ScanReturn
  \/ CallHeap \/ HeapStep \/ HeapReturn
  \/ CallDk \/ DkStep \/ DkReturn
  \/ CallArboricityBound
  \/ CallAllDk \/ AllDkStep \/ AllDkReturn
  \/ CallAllAlpha \/ AllAlphaStep \/ AllAlphaReturn
  \/ CallVerifyOptimized
  \/ CallRemoval \/ RemovalStep \/ RemovalReturn
  \/ CallExact
  \/ CallVerify \/ CallVerifyUpdated
  \/ CallAllK \/ AllKStep \/ AllKReturn
  \/ Return

Spec == Init /\ [][Next]_vars
SpecMid == InitMid /\ [][Next]_vars

\* a loop that has been entered keeps running: the evaluators are
\* synchronous, single-threaded calls
LoopsRun ==
  /\ WF_vars(HeapStep) /\ WF_vars(HeapReturn)
  /\ WF_vars(DkStep) /\ WF_vars(DkReturn)
SpecLive == InitLive /\ [][Next]_vars /\ LoopsRun
SpecPad == InitPad /\ [][Next]_vars
SpecBig == InitBig /\ [][Next]_vars

\* ------------------------------------------------------------- properties
Done(name) == pc = "done" /\ op = name

\* the two single-k evaluators of dk: naive scan and heap variant
DkOps == {"modified_degeneracy_algorithm",
          "modified_degeneracy_algorithm_optimized"}

\* the ceiling of the average degree of the subgraph induced by S:
\* the least c with c * |S| >= 2 * |E(S)|
CeilAvg(S) ==
  IF S = {} THEN 0
  ELSE CHOOSE c \in 0 .. (2 * Cardinality(E)) :
         /\ c * Cardinality(S) >= 2 * EdgesIn(S)
         /\ c = 0 \/ (c - 1) * Cardinality(S) < 2 * EdgesIn(S)

\* the vertex subsets with more than kk vertices
LargeSets(kk) == {S \in SUBSET Nodes : Cardinality(S) > kk}

\* a is alpha_k(G), the maximum of CeilAvg over the large sets (0 if none)
IsAlphaK(a, kk) ==
  /\ \A S \in LargeSets(kk) : CeilAvg(S) <= a
  /\ a = 0 \/ \E S \in LargeSets(kk) : CeilAvg(S) = a

\* C1: for n <= 15 and 0 <= k < n the dk value of
\* modified_degeneracy_algorithm (scan or heap) is at most the value of
\* compute_alpha_k_exact, and verify_approximation reports lower_bound_ok.
LowerBoundLaw ==
  /\ (pc = "done" /\ op \in DkOps /\ n <= ExactCeiling /\ 0 <= k /\ k < n)
       => ret.val <= ComputeAlphaKExact(k).val
  /\ (Done("verify_approximation") /\ n <= ExactCeiling /\ 0 <= k /\ k < n)
       => report.lower_bound_ok = "True"

\* C2: for n <= 15 and 0 <= k < n the value of compute_alpha_k_exact is at
\* most twice the dk value of modified_degeneracy_algorithm (scan or heap),
\* and verify_approximation reports upper_bound_ok.
UpperBoundLaw ==
  /\ (pc = "done" /\ op \in DkOps /\ n <= ExactCeiling /\ 0 <= k /\ k < n)
       => ComputeAlphaKExact(k).val <= 2 * ret.val
  /\ (Done("verify_approximation") /\ n <= ExactCeiling /\ 0 <= k /\ k < n)
       => report.upper_bound_ok = "True"

ExactIsMaximum ==
  (Done("compute_alpha_k_exact") /\ n <= ExactCeiling /\ 0 <= k /\ k < n) =>
    ret.kind = "value" /\ IsAlphaK(ret.val, k)

\* the oracle has returned a maximum that only the whole complete graph on
\* four vertices attains
ExactIsMaximumCase ==
  /\ Done("compute_alpha_k_exact") /\ n = 4 /\ E = Pairs(4) /\ k = 2
  /\ ret.val = 3

\* C5 (as stated): for n above the ceiling and every k >= 0
\* compute_alpha_k_exact(k) returns (None, None), never a number.
InfeasibleAboveCeiling ==
  (Done("compute_alpha_k_exact") /\ n > ExactCeiling /\ k >= 0) =>
    ret.kind = "None"

\* C5 (amended): for n above the ceiling compute_alpha_k_exact(k) returns
\* (None, None) for every k with 0 <= k < n, and (0, None) for k >= n.
InfeasibleBelowN ==
  (Done("compute_alpha_k_exact") /\ n > ExactCeiling /\ k >= 0) =>
    IF k < n THEN ret.kind = "None"
    ELSE ret.kind = "value" /\ ret.val = 0

\* the oracle has refused a graph above the ceiling that has an edge
InfeasibleCase ==
  /\ Done("compute_alpha_k_exact") /\ n > ExactCeiling
  /\ 0 <= k /\ k < n /\ E # {}
  /\ ret.kind = "None"

\* C6: compute_alpha_k_for_all_k reports no number in alpha_k_values for a
\* k for which compute_alpha_k_exact(k) returns None.
NoNumberForInfeasible ==
  Done("compute_alpha_k_for_all_k") =>
    \A i \in 1 .. Len(acc.k_values) :
      ComputeAlphaKExact(acc.k_values[i]).kind = "None"
        => acc.alpha_k_values[i].kind # "int"

\* C7: for n >= 1 and k >= n modified_degeneracy_algorithm(k) (scan and
\* heap) returns dk = 0.
DkZeroAtLargeK ==
  (pc = "done" /\ op \in DkOps /\ n >= 1 /\ k >= n) => ret.val = 0

FullOrderAtZero ==
  (Done("modified_degeneracy_algorithm") /\ k = 0) => Len(ret.order) = n

\* C10: for k < 0 the evaluators report an explicit InvalidParameter
\* outcome, not a numeric default and not a silently clamped k.
InvalidParameterReported ==
  (/\ pc = "done" /\ k < 0
   /\ op \in DkOps \cup {"compute_alpha_k_removal", "compute_alpha_k_exact",
                         "compute_dk"})
    => ret.kind = "InvalidParameter"

\* the set of entries of a list
Range(seq) == {seq[i] : i \in DOMAIN seq}

\* a list without repeated entries
NoRepeat(seq) == \A i, j \in DOMAIN seq : seq[i] = seq[j] => i = j

\* C11: for k >= 1 the removal_order returned by the scan and by the heap
\* variant has exactly n entries and holds every vertex exactly once, and
\* while either loop runs the not-yet-removed vertices are exactly those
\* missing from removal_order, so none remain only after the n-th removal.
EliminationComplete ==
  /\ (pc = "done" /\ op \in DkOps /\ k >= 1) =>
       /\ Len(ret.order) = n
       /\ Range(ret.order) = Nodes
       /\ NoRepeat(ret.order)
  /\ pc = "scan" =>
       /\ NoRepeat(scan.removal_order)
       /\ scan.H = Nodes \ Range(scan.removal_order)
       /\ (scan.H = {}) <=> (Len(scan.removal_order) = n)
  /\ pc = "heap" =>
       /\ NoRepeat(hp.removal_order)
       /\ hp.removed = Range(hp.removal_order)
       /\ (Nodes \ hp.removed = {}) <=> (Len(hp.removal_order) = n)

\* an elimination of a graph with an edge and three or more vertices has
\* returned its full order
EliminationCompleteCase ==
  /\ pc = "done" /\ op \in DkOps /\ k >= 1 /\ n >= 3 /\ E # {}
  /\ Len(ret.order) = n

\* the vertices removed before position i of a removal order
Before(order, i) == {order[j] : j \in 1 .. (i - 1)}

\* C12: in modified_degeneracy_algorithm_optimized the value stored in
\* degree_at_removal[v] is the number of neighbours of v in the original
\* graph that were not removed before v, and while the loop runs degrees[v]
\* of a remaining vertex is the number of its remaining neighbours.
DegreeConsistent ==
  (op = "modified_degeneracy_algorithm_optimized" /\ pc \in {"heap", "done"})
    =>
    /\ DOMAIN hp.degree_at_removal = Range(hp.removal_order)
    /\ \A i \in DOMAIN hp.removal_order :
         hp.degree_at_removal[hp.removal_order[i]] =
           Cardinality(Adj(hp.removal_order[i]) \ Before(hp.removal_order, i))
    /\ \A v \in DOMAIN hp.degrees : v \notin hp.removed =>
         /\ hp.degrees[v] = Cardinality(Adj(v) \ hp.removed)
         /\ hp.neighbors[v] = Adj(v) \ hp.removed

\* the heap variant has finished and recorded for some vertex a degree that
\* is positive and below its degree in the original graph
DegreeConsistentCase ==
  /\ Done("modified_degeneracy_algorithm_optimized") /\ k >= 1
  /\ \E v \in DOMAIN hp.degree_at_removal :
       /\ hp.degree_at_removal[v] > 0
       /\ hp.degree_at_removal[v] < Cardinality(Adj(v))

\* C13: for n >= 1 and every k in 0 .. n-1 the k-th value returned by
\* compute_all_dk_optimized() equals compute_dk(k) of a separate single-k
\* run.
AllDkMatchesSingle ==
  (Done("compute_all_dk_optimized") /\ n >= 1) =>
    /\ ret.kind = "arrays"
    /\ Len(all_dk.dk_values) = n
    /\ \A kk \in 0 .. (n - 1) : all_dk.dk_values[kk + 1] = ComputeDk(kk).val

\* the single pass has returned a positive value for k = n - 1 that is
\* below its value for k = 0
AllDkMatchesSingleCase ==
  /\ Done("compute_all_dk_optimized") /\ n >= 3
  /\ all_dk.dk_values[1] > all_dk.dk_values[n]
  /\ all_dk.dk_values[n] > 0

\* the degree-at-removal values of a run in the order of removal
DegreeSequence(order, dar) == [i \in DOMAIN order |-> dar[order[i]]]

\* C14: for every graph, every vertex iteration order and every k >= 1,
\* modified_degeneracy_algorithm_optimized(k) and
\* modified_degeneracy_algorithm(k) produce the same sequence of
\* degree-at-removal values and return the same dk value.
HeapMatchesScan ==
  (Done("modified_degeneracy_algorithm_optimized") /\ k >= 1) =>
    LET s == ScanRun(ScanStart) IN
    /\ DegreeSequence(hp.removal_order, hp.degree_at_removal)
         = DegreeSequence(s.removal_order, s.degree_at_removal)
    /\ ret.val = ModifiedDegeneracy(k).val

\* the orders in which a minimum-degree-first elimination can remove the
\* vertices: each entry has the least degree among the not-yet-removed
MinDegreeOrders ==
  {p \in [1 .. n -> Nodes] :
     /\ NoRepeat(p)
     /\ \A i \in 1 .. n :
          \A u \in Nodes \ Before(p, i) :
            DegreeIn(Nodes \ Before(p, i), p[i])
              <= DegreeIn(Nodes \ Before(p, i), u)}

\* the degree-at-removal table of an elimination in the order p
DegreesAlong(p) ==
  [v \in Range(p) |->
     LET i == CHOOSE j \in DOMAIN p : p[j] = v
     IN  DegreeIn(Nodes \ Before(p, i), v)]

\* C15: for 1 <= k <= n the dk value (maximum degree-at-removal over the
\* last k removed vertices) is the same for every minimum-degree-first
\* elimination order, whichever minimum-degree vertex is taken at a tie.
TieBreakIndependent ==
  (pc = "done" /\ op \in DkOps /\ 1 <= k /\ k <= n) =>
    \A p \in MinDegreeOrders : DkOfRun(p, DegreesAlong(p), k) = ret.val

\* nx.complete_graph(n)
IsComplete == E = Pairs(n)

\* nx.star_graph(n - 1): one hub joined to every other vertex, no other edge
IsStar == \E hub \in Nodes : E = {{hub, v} : v \in Nodes \ {hub}}

\* C16: for the complete graph on n >= 2 vertices
\* modified_degeneracy_algorithm(0) returns dk = n - 1.
CompleteGraphDegeneracy ==
  (Done("modified_degeneracy_algorithm") /\ k = 0 /\ n >= 2 /\ IsComplete)
    => ret.val = n - 1

\* C17: for the star with one hub and two or more leaves
\* modified_degeneracy_algorithm(0) returns d_0 > 0 and
\* compute_alpha_k_exact(0) returns exactly 2 * d_0.
StarRatioTwo ==
  (Done("modified_degeneracy_algorithm") /\ k = 0 /\ n >= 3 /\ IsStar)
    => /\ ret.val > 0
       /\ ComputeAlphaKExact(0).val = 2 * ret.val

VerifyOps == {"verify_approximation", "verify_approximation_updated"}

\* C19: verify_approximation reports ratio = +infinity when dk = 0 and
\* alpha_k > 0, ratio = 1 when dk = 0 and alpha_k = 0, and alpha_k / dk
\* when dk > 0.
RatioConvention ==
  (pc = "done" /\ op \in VerifyOps /\ ret.kind = "report"
     /\ ~report.alpha_is_none) =>
    /\ (report.dk = 0 /\ report.alpha_k > 0) => report.ratio.kind = "inf"
    /\ (report.dk = 0 /\ report.alpha_k = 0) =>
         /\ report.ratio.kind = "float"
         /\ report.ratio.num = report.ratio.den
    /\ report.dk > 0 =>
         /\ report.ratio.kind = "float"
         /\ report.ratio.num = report.alpha_k
         /\ report.ratio.den = report.dk

\* H.degree(v) when the graph has the edge set EE instead of E
DegreeOn(EE, H, v) == Cardinality({u \in H : {u, v} \in EE})

RECURSIVE ScanMinOn(_, _, _, _, _)
\* the minimum-degree scan of modified_degeneracy_algorithm on the edges EE
ScanMinOn(EE, H, i, min_deg, min_vertex) ==
  IF i > Len(nodes) THEN [deg |-> min_deg, v |-> min_vertex]
  ELSE LET v == nodes[i] IN
       IF v \in H /\ DegreeOn(EE, H, v) < min_deg
       THEN ScanMinOn(EE, H, i + 1, DegreeOn(EE, H, v), v)
       ELSE ScanMinOn(EE, H, i + 1, min_deg, min_vertex)

RECURSIVE ScanRunOn(_, _)
\* the removal loop of modified_degeneracy_algorithm on the edges EE
ScanRunOn(EE, s) ==
  IF ~ScanMore(s) THEN s
  ELSE LET m == ScanMinOn(EE, s.H, 1, Inf, NoVertex) IN
       ScanRunOn(EE, [H |-> s.H \ {m.v},
                      removal_order |-> Append(s.removal_order, m.v),
                      degree_at_removal |->
                        (m.v :> m.deg) @@ s.degree_at_removal,
                      step |-> s.step + 1])

\* the dk value modified_degeneracy_algorithm(kk) returns for the graph on
\* the same vertices with the edge set EE
DkOn(EE, kk) ==
  IF EarlyReturn(kk) THEN 0
  ELSE LET s == ScanRunOn(EE, ScanStart)
       IN  DkOfRun(s.removal_order, s.degree_at_removal, kk)

\* C20: for every graph G, every pair of non-adjacent vertices u, v and
\* every k, modified_degeneracy_algorithm(k) on G plus the edge {u, v}
\* returns a dk value >= the dk value it returns on G.
EdgeMonotone ==
  Done("modified_degeneracy_algorithm") =>
    \A e \in Pairs(n) \ E : DkOn(E \cup {e}, k) >= ret.val

\* the computations of the empty-graph claim
EmptyGraphOps ==
  {"compute_dk", "compute_all_dk_optimized", "modified_degeneracy_algorithm",
   "compute_all_alpha_k_optimized", "compute_alpha_k_exact"}

\* C21: on the graph with n = 0 vertices compute_dk, compute_all_dk_optimized,
\* modified_degeneracy_algorithm, compute_all_alpha_k_optimized and
\* compute_alpha_k_exact (k >= 0) complete without raising and return 0 or
\* an empty record or array.
EmptyGraphQuiet ==
  (pc = "done" /\ n = 0 /\ k >= 0 /\ op \in EmptyGraphOps) =>
    /\ ret.kind \in {"value", "arrays", "dict"}
    /\ ret.val = 0 /\ ret.order = <<>>
    /\ all_dk.dk_values = <<>>
    /\ all_alpha.alpha_values = <<>>

\* C22: compute_arboricity_bound() is an upper bound on the arboricity of
\* the graph: it is >= ceil(|E(H)| / (|V(H)| - 1)) for every induced
\* subgraph H with at least two vertices.
ArboricityBounded ==
  Done("compute_arboricity_bound") =>
    \A S \in SUBSET Nodes :
      Cardinality(S) >= 2 => Ceil(EdgesIn(S), Cardinality(S) - 1) <= ret.val

\* the degeneracy of the graph: the maximum degree-at-removal over a full
\* minimum-degree-first elimination
Degeneracy ==
  IF n = 0 THEN 0
  ELSE LET s == ScanRun(ScanStart)
       IN  MaxOver(s.degree_at_removal, s.removal_order)

\* C23: the value at k = 0 of the igraph engine, compute_dk(0) and
\* compute_all_dk_optimized()[0], equals the degeneracy of the graph.
IgraphZeroIsDegeneracy ==
  /\ (Done("compute_dk") /\ k = 0) => ret.val = Degeneracy
  /\ (Done("compute_all_dk_optimized") /\ n >= 1) =>
       all_dk.dk_values[1] = Degeneracy

\* C24: for n >= 2 and every k in 1 .. n-1 the dictionary returned by
\* compute_all_alpha_k_optimized() has an entry for k equal to the value of
\* compute_alpha_k_removal(k), and verify_optimized_correctness reports
\* all_match = True.
SinglePassMatchesRemoval ==
  /\ (Done("compute_all_alpha_k_optimized") /\ n >= 2) =>
       \A kk \in 1 .. (n - 1) :
         /\ kk \in DOMAIN all_alpha.alpha_values
         /\ all_alpha.alpha_values[kk] = ComputeAlphaKRemoval(kk).val
  /\ (Done("verify_optimized_correctness") /\ n >= 2) =>
       ret.kind = "dict" /\ all_alpha.all_match = "True"

\* C25: for 1 <= k < n the value of compute_alpha_k_removal(k) is the
\* ceiling of the average degree of an induced subgraph with more than k
\* vertices, and so is at most the value of compute_alpha_k_exact(k).
RemovalBelowExact ==
  (Done("compute_alpha_k_removal") /\ 1 <= k /\ k < n) =>
    /\ \E S \in LargeSets(k) : CeilAvg(S) = ret.val
    /\ ret.val <= ComputeAlphaKExact(k).val

\* the current degree of u when the vertices in gone have been removed
CurrentDegree(gone, u) == Cardinality(Adj(u) \ gone)

\* every vertex that joins the removed set new \ old had, before the step,
\* a current degree <= that of every other not-yet-removed vertex
MinimumTaken(old, new) ==
  \A v \in new \ old : \A u \in Nodes \ old :
    CurrentDegree(old, v) <= CurrentDegree(old, u)

\* C26: in the heap loops of modified_degeneracy_algorithm_optimized,
\* compute_dk and compute_all_dk_optimized every vertex that is removed has,
\* at the moment of its removal, a current degree <= the current degree of
\* every other not-yet-removed vertex.
MinDegreeSelected ==
  [][/\ pc = "heap" => MinimumTaken(hp.removed, hp'.removed)
     /\ pc = "dk" => MinimumTaken(ig.removed, ig'.removed)
     /\ pc = "all_dk" => MinimumTaken(all_dk.removed, all_dk'.removed)]_vars

\* the heap loop has removed two or more vertices and a vertex of larger
\* current degree than the last one removed is still waiting
MinDegreeSelectedCase ==
  /\ pc = "heap" /\ Len(hp.removal_order) >= 2
  /\ \E u \in Nodes \ hp.removed :
       CurrentDegree(hp.removed, u)
         > hp.degree_at_removal[hp.removal_order[Len(hp.removal_order)]]

\* the entry the next heappop returns is current: if its vertex is not yet
\* removed, its recorded degree is the vertex's entry in the degree table
\* and the vertex's current degree in the graph
PopIsCurrent(heap, removed, degrees) ==
  heap # EmptyBag =>
    LET e == HeapMin(heap) IN
    e[2] \notin removed =>
      e[1] = degrees[e[2]] /\ e[1] = CurrentDegree(removed, e[2])

\* C27: in the heap loops, whenever an entry (deg, v) is popped and v is not
\* yet removed, deg equals v's current degree: no stale entry eliminates a
\* vertex, testing removed[v] alone suffices in compute_dk and
\* compute_all_dk_optimized, and the re-insert branch (deg < actual_deg) of
\* modified_degeneracy_algorithm_optimized is never taken.
LazyDeletionSound ==
  /\ pc = "heap" => PopIsCurrent(hp.heap, hp.removed, hp.degrees)
  /\ (pc = "dk" /\ DkMore(ig)) => PopIsCurrent(ig.heap, ig.removed, ig.degrees)
  /\ (pc = "all_dk" /\ AllDkMore(all_dk)) =>
       PopIsCurrent(all_dk.heap, all_dk.removed, all_dk.degrees)

\* compute_dk is about to pop while its heap still holds an outdated entry
\* of a vertex that is not yet removed
LazyDeletionSoundCase ==
  /\ pc = "dk" /\ DkMore(ig)
  /\ \E e \in BagToSet(ig.heap) :
       e[2] \notin ig.removed /\ e[1] # ig.degrees[e[2]]

RECURSIVE SumOver(_, _)
\* the sum of degrees[v] over the vertices v in S
SumOver(degrees, S) ==
  IF S = {} THEN 0
  ELSE LET v == CHOOSE x \in S : TRUE
       IN  degrees[v] + SumOver(degrees, S \ {v})

\* the counters of a heap loop agree with the graph left by the removals
CountersAgree(s) ==
  /\ s.edges_remaining = EdgesIn(Nodes \ s.removed)
  /\ 2 * s.edges_remaining = SumOver(s.degrees, Nodes \ s.removed)
  /\ s.vertices_remaining = Cardinality(Nodes \ s.removed)

\* C28: after every iteration of the elimination loop of compute_dk and of
\* compute_all_dk_optimized, edges_remaining is the number of edges with
\* both endpoints not yet removed (half the sum of the current degrees of
\* the remaining vertices) and vertices_remaining is the number of
\* not-yet-removed vertices.
EdgeCountInvariant ==
  /\ (op = "compute_dk" /\ pc \in {"dk", "done"} /\ ~DkEarly(k)) =>
       CountersAgree(ig)
  /\ (op = "compute_all_dk_optimized" /\ pc \in {"all_dk", "done"} /\ n >= 1)
       => CountersAgree(all_dk)

\* compute_dk has removed two or more vertices and edges are still left
EdgeCountInvariantCase ==
  /\ op = "compute_dk" /\ pc = "dk"
  /\ Cardinality(ig.removed) >= 2
  /\ ig.edges_remaining >= 1 /\ ig.edges_remaining < Cardinality(E)

\* C29: no call of modified_degeneracy_algorithm,
\* modified_degeneracy_algorithm_optimized, compute_alpha_k_removal,
\* compute_all_alpha_k_optimized or compute_alpha_k_exact, and no step of
\* their loops, changes the stored graph self.G, the cached adjacency
\* self.adj or self.n.
GraphNotMutated == [][n' = n /\ E' = E /\ nodes' = nodes]_vars

\* compute_alpha_k_removal has returned after its working copy lost a
\* vertex that carries an edge of the stored graph
GraphNotMutatedCase ==
  /\ Done("compute_alpha_k_removal")
  /\ \E e \in E : ~(e \subseteq rm.H)

\* C30: the heap loop of modified_degeneracy_algorithm_optimized (k >= 1)
\* eventually terminates with the heap empty and all n vertices removed, and
\* the loop of compute_dk(k) for 0 <= k < n eventually terminates with
\* exactly n - k vertices removed.
LoopsTerminate ==
  /\ (pc = "heap") ~>
       (/\ Done("modified_degeneracy_algorithm_optimized")
        /\ hp.heap = EmptyBag /\ hp.removed = Nodes)
  /\ (pc = "dk" /\ k >= 0) ~>
       (Done("compute_dk") /\ Cardinality(ig.removed) = n - k)

\* compute_dk has stopped for some k >= 1 with n - k vertices removed while
\* entries are still on its heap
LoopsTerminateCase ==
  /\ Done("compute_dk") /\ 1 <= k /\ k < n
  /\ Cardinality(ig.removed) = n - k
  /\ ig.heap # EmptyBag

====
